---- MODULE Spec2Model ----
(***************************************************************************)
(* Model of the property price prediction service (src/app/main.py,        *)
(* src/app/config.py, src/app/models.py).                                  *)
(*                                                                         *)
(* Representation of Python values:                                        *)
(*  - a str that is compared character by character (city, district,      *)
(*    voivodeship of a dataset row or of a query) is a tuple of one-letter *)
(*    strings, so that str.lower() is a real conversion;                   *)
(*  - None (for an Optional[str]) is the tuple NoneStr, the empty str is   *)
(*    <<>>; an optional value of another type is a set with at most one    *)
(*    element ({} is None);                                                *)
(*  - a float that carries m2 is an integer number of tenths of m2; a      *)
(*    float that carries PLN is an integer number of PLN; a float produced *)
(*    by round(x, 2) is an integer number of hundredths;                   *)
(*  - column names and enum values are written in ASCII.                   *)
(***************************************************************************)
EXTENDS Integers, Sequences, FiniteSets, TLC

VARIABLES phase, blobs, artifact, cache, loads, dataset, resp

vars == <<phase, blobs, artifact, cache, loads, dataset, resp>>

\* ------------------------------------------------------------ bounds
\* Largest number of rows of the reference dataset.
MaxRows == 3

\* ------------------------------------------------------------ strings
NoneStr == <<"None">>
NaN == <<"NaN">>

\* Python truthiness of an Optional[str]: None and "" are falsy.
Truthy(s) == s # NoneStr /\ s # <<>>

LowerChar(c) ==
    CASE c = "K" -> "k"
      [] c = "R" -> "r"
      [] c = "W" -> "w"
      [] c = "A" -> "a"
      [] OTHER -> c

\* str.lower()
Lower(s) == [i \in DOMAIN s |-> LowerChar(s[i])]

\* ------------------------------------------------------------ artifact
Parts == {"model", "encoders", "features"}
None == 0

NumericColumns == <<"Area (m2)", "Number of rooms", "year_const">>
CategoricalColumns ==
    <<"Heating", "Building material", "Building type", "Market", "voivodeship">>

SeqToSet(s) == {s[i] : i \in DOMAIN s}

\* ---- config.py: load_model / load_encoders / load_features.
\* st is the interpreter state threaded through a handler:
\* [cache, loads, raised]; raised # "" means an exception is propagating and
\* the statements that follow are skipped.
load(p, st) ==
    IF p \notin blobs
    THEN [st EXCEPT !.raised = "FileNotFoundError"]
    ELSE [st EXCEPT !.loads[p] = @ + 1, !.cache[p] = st.loads[p] + 1]

get_always_loads(p, st) ==
    IF st.raised # "" THEN st ELSE load(p, st)

\* ---- config.py: get_model / get_encoders / get_features.
get(p, st) ==
    IF st.raised # "" THEN st
    ELSE IF st.cache[p] = None THEN load(p, st)
    ELSE st

get_model(st) == get("model", st)
get_encoders(st) == get("encoders", st)
get_features(st) == get("features", st)

Interp == [cache |-> cache, loads |-> loads, raised |-> ""]

\* ------------------------------------------------------------ encoding
AllColumns == NumericColumns \o CategoricalColumns

\* main.py 122-131: the intermediate named-value mapping.
feature_dict(request) ==
    [c \in SeqToSet(AllColumns) |->
        CASE c = "Area (m2)" -> request.area
          [] c = "Number of rooms" -> request.rooms
          [] c = "year_const" -> request.year_constructed
          [] c = "Heating" -> request.heating
          [] c = "Building material" -> request.building_material
          [] c = "Building type" -> request.building_type
          [] c = "Market" -> request.market
          [] c = "voivodeship" -> request.voivodeship]

\* LabelEncoder.transform of one value: classes is the encoder's sorted
\* classes_ array; the code is the 0-based position of the value in it.
transform(classes, v) ==
    (CHOOSE i \in DOMAIN classes : classes[i] = v) - 1

\* main.py 136-138: the categorical columns that have an encoder are replaced
\* by their codes, in the order of the loop; the first value outside its
\* encoder's classes raises ValueError. Result: [raised, X].
RECURSIVE encode_from(_, _, _)
encode_from(k, X, encoders) ==
    IF k > Len(CategoricalColumns) THEN [raised |-> "", X |-> X]
    ELSE LET col == CategoricalColumns[k] IN
         IF col \notin DOMAIN encoders
         THEN encode_from(k + 1, X, encoders)
         ELSE IF X[col] \notin SeqToSet(encoders[col])
              THEN [raised |-> "ValueError: unseen label", X |-> X]
              ELSE encode_from(k + 1,
                       [X EXCEPT ![col] = transform(encoders[col], X[col])],
                       encoders)

encode_columns(X, encoders) == encode_from(1, X, encoders)

reorder_keeps_dict_order(X, features) ==
    IF \E i \in DOMAIN features : features[i] \notin DOMAIN X
    THEN [raised |-> "KeyError", X |-> <<>>]
    ELSE [raised |-> "",
          X |-> [i \in 1..Len(features) |-> X[AllColumns[i]]]]

reorder_skips_missing(X, features) ==
    LET IsColumn(c) == c \in DOMAIN X
        fs == SelectSeq(features, IsColumn)
    IN  [raised |-> "", X |-> [i \in DOMAIN fs |-> X[fs[i]]]]

\* main.py 141: X = X[features]. A name that is no column raises KeyError.
reorder(X, features) ==
    IF \E i \in DOMAIN features : features[i] \notin DOMAIN X
    THEN [raised |-> "KeyError", X |-> <<>>]
    ELSE [raised |-> "", X |-> [i \in DOMAIN features |-> X[features[i]]]]

\* dtype of each entry of the reordered frame: a categorical column that had
\* no encoder still holds its str.
dtypes(features, encoders) ==
    [i \in DOMAIN features |->
        IF features[i] \in SeqToSet(CategoricalColumns)
           /\ features[i] \notin DOMAIN encoders
        THEN "object" ELSE "number"]

\* main.py 144: model.predict(X)[0]. The regressor is an opaque artifact; it
\* is a function of the positions of the vector only (it knows no names),
\* here a decision stump on position m.pos. A vector of another length than
\* it was trained on, or a non-numeric entry, raises ValueError.
model_predict(m, X, dt) ==
    IF Len(X) # m.n_features_in \/ \E i \in DOMAIN dt : dt[i] = "object"
    THEN [raised |-> "ValueError: predict", prediction |-> 0]
    ELSE [raised |-> "",
          prediction |-> IF X[m.pos] <= m.thr THEN m.lo ELSE m.hi]

\* ------------------------------------------------------------ confidence
Tenths(x) == x * 10

confidence_exclusive_area(request, prediction) ==
    LET s1 == IF Tenths(40) <= request.area /\ request.area < Tenths(200)
              THEN 3 ELSE 0
        s2 == s1 + IF 2 <= request.rooms /\ request.rooms <= 5 THEN 2 ELSE 0
        s3 == s2 + IF 1960 <= request.year_constructed
                      /\ request.year_constructed <= 2025 THEN 2 ELSE 0
        s4 == s3 + IF 100000 <= prediction /\ prediction <= 1500000
                   THEN 3 ELSE 0
    IN  IF s4 >= 8 THEN "High" ELSE IF s4 >= 5 THEN "Medium" ELSE "Low"

\* main.py 252-277. confidence_score is kept in tenths: the binary64 sums of
\* 0.3, 0.2, 0.2, 0.3 taken in this order compare with 0.8 and 0.5 exactly as
\* the sums of 3, 2, 2, 3 compare with 8 and 5 (all 16 subsets).
determine_confidence(request, prediction) ==
    LET s1 == IF Tenths(40) <= request.area /\ request.area <= Tenths(200)
              THEN 3 ELSE 0
        s2 == s1 + IF 2 <= request.rooms /\ request.rooms <= 5 THEN 2 ELSE 0
        s3 == s2 + IF 1960 <= request.year_constructed
                      /\ request.year_constructed <= 2025 THEN 2 ELSE 0
        s4 == s3 + IF 100000 <= prediction /\ prediction <= 1500000
                   THEN 3 ELSE 0
    IN  IF s4 >= 8 THEN "High" ELSE IF s4 >= 5 THEN "Medium" ELSE "Low"

\* ------------------------------------------------------------ dataset
\* dataset = [status, columns, rows]: what pd.read_csv finds at
\* DATA_DIR / "data_processed.csv". status is "ok", "missing" or "unreadable";
\* columns is the set of column names of the file; rows is the sequence of its
\* records. A row's city or district may be NaN (an empty cell).
DatasetColumns ==
    {"Price", "Area (m2)", "Number of rooms", "year_const",
     "voivodeship", "city", "district"}

StatColumns == {"Price", "Area (m2)", "Number of rooms", "year_const"}

RowIndex == DOMAIN dataset.rows

RECURSIVE SumOver(_, _)
\* Series.sum over the rows of index set I; f is "Price", "Area", "rooms" or
\* "year_const".
SumOver(I, f) ==
    IF I = {} THEN 0
    ELSE LET i == CHOOSE j \in I : TRUE
         IN  dataset.rows[i][f] + SumOver(I \ {i}, f)

MinOver(I, f) ==
    CHOOSE v \in {dataset.rows[i][f] : i \in I} :
        \A i \in I : v <= dataset.rows[i][f]

MaxOver(I, f) ==
    CHOOSE v \in {dataset.rows[i][f] : i \in I} :
        \A i \in I : v >= dataset.rows[i][f]

\* round(num / den, 2) in hundredths, for num >= 0 and den > 0: Python rounds
\* to the nearest hundredth, an exact tie to the even one.
Round2(num, den) ==
    LET q == (100 * num) \div den
        r == (100 * num) % den
    IN  IF 2 * r < den THEN q
        ELSE IF 2 * r > den THEN q + 1
        ELSE IF q % 2 = 0 THEN q ELSE q + 1

IntOf_rounds(num, den) == (2 * num + den) \div (2 * den)

\* int(num / den) for num >= 0 and den > 0: truncation.
IntOf(num, den) == num \div den

match_lower_exact(cell, value) == cell # NaN /\ cell = value

\* main.py 154 and 157: Series.str.lower() == value.lower(); NaN never
\* compares equal.
match_lower(cell, value) == cell # NaN /\ Lower(cell) = Lower(value)

\* main.py 214, 217, 220: Series == value.
match_exact(cell, value) == cell # NaN /\ cell = value

\* main.py 160-172 (with location) and 229-241: the statistics over the rows
\* of index set I. Prices and areas are reported in hundredths.
statistics(I) ==
    [properties_count |-> Cardinality(I),
     avg_price |-> Round2(SumOver(I, "Price"), Cardinality(I)),
     min_price |-> 100 * MinOver(I, "Price"),
     max_price |-> 100 * MaxOver(I, "Price"),
     avg_area  |-> Round2(SumOver(I, "Area"), 10 * Cardinality(I)),
     avg_rooms |-> Round2(SumOver(I, "rooms"), Cardinality(I)),
     avg_year  |-> IntOf(SumOver(I, "year_const"), Cardinality(I))]

district_step_on_all_rows(request, city_rows) ==
    {i \in RowIndex : match_lower(dataset.rows[i].district, request.district)}

\* main.py 156-157: the district step, taken on the rows the city step left.
district_step(request, city_rows) ==
    {i \in city_rows : match_lower(dataset.rows[i].district, request.district)}

has_rows_off_by_one(rows) == Cardinality(rows) > 1

\* main.py 159: if len(filtered_df) > 0.
has_rows(rows) == Cardinality(rows) > 0

inner_except_reraises(raised) == raised

\* main.py 173-175: except Exception inside the local-statistics block: the
\* exception is printed and dropped.
inner_except(raised) == ""

\* main.py 146-175: the local-statistics block of predict_price. Result:
\* [raised, local_stats, outcome, city_rows, rows, district_applied].
\* local_stats is {} (None) or a singleton; city_rows and rows are the index
\* sets after the city step and after both steps.
local_statistics(request) ==
    LET skipped == [raised |-> "", local_stats |-> {}, outcome |-> "skipped",
                    city_rows |-> {}, rows |-> {}, district_applied |-> FALSE]
        failed(e, cr, rs, da) ==
            [raised |-> inner_except(e), local_stats |-> {},
             outcome |-> "raised", city_rows |-> cr, rows |-> rs,
             district_applied |-> da]
    IN
    IF ~(Truthy(request.city) \/ Truthy(request.district)) THEN skipped
    ELSE IF dataset.status # "ok" THEN failed(dataset.status, {}, {}, FALSE)
    ELSE IF Truthy(request.city) /\ "city" \notin dataset.columns
         THEN failed("KeyError: city", {}, {}, FALSE)
    ELSE
      LET city_rows ==
              IF Truthy(request.city)
              THEN {i \in RowIndex :
                       match_lower(dataset.rows[i].city, request.city)}
              ELSE RowIndex
          apply_district == Truthy(request.district) /\ Cardinality(city_rows) > 0
      IN
      IF apply_district /\ "district" \notin dataset.columns
      THEN failed("KeyError: district", city_rows, {}, TRUE)
      ELSE
        LET rows == IF apply_district
                    THEN district_step(request, city_rows)
                    ELSE city_rows
        IN
        IF ~has_rows(rows)
        THEN [raised |-> "", local_stats |-> {}, outcome |-> "no rows",
              city_rows |-> city_rows, rows |-> rows,
              district_applied |-> apply_district]
        ELSE IF ~(StatColumns \subseteq dataset.columns)
        THEN failed("KeyError: statistics", city_rows, rows, apply_district)
        ELSE [raised |-> "",
              local_stats |->
                  {[location |-> [city |-> request.city,
                                  district |-> request.district]]
                   @@ statistics(rows)},
              outcome |-> "snapshot",
              city_rows |-> city_rows, rows |-> rows,
              district_applied |-> apply_district]

\* ------------------------------------------------------------ handlers
startup_swallows(raised) == "serving"

\* main.py 51-53: startup_event re-raises what the loaders raised; the
\* application then does not start.
startup_outcome(raised) == IF raised # "" THEN "failed" ELSE "serving"

\* main.py 43-53.
startup_event ==
    /\ phase = "boot"
    /\ LET st == get_features(get_encoders(get_model(Interp)))
       IN  /\ cache' = st.cache
           /\ loads' = st.loads
           /\ phase' = startup_outcome(st.raised)
    /\ UNCHANGED <<blobs, artifact, dataset, resp>>

\* main.py 95-192.
predict_price(request) ==
    /\ phase = "serving"
    /\ LET st  == get_features(get_encoders(get_model(Interp)))
           enc == encode_columns(feature_dict(request), artifact.encoders)
           ro  == reorder(enc.X, artifact.features)
           pr  == model_predict(artifact.model, ro.X,
                                dtypes(artifact.features, artifact.encoders))
           invoked == st.raised = "" /\ enc.raised = "" /\ ro.raised = ""
           before == IF st.raised # "" THEN st.raised
                     ELSE IF enc.raised # "" THEN enc.raised
                     ELSE IF ro.raised # "" THEN ro.raised
                     ELSE pr.raised
           ls  == local_statistics(request)
           error == IF before # "" THEN before ELSE ls.raised
           trace == [X |-> IF invoked THEN ro.X ELSE <<>>,
                     invoked |-> invoked,
                     agg |-> IF before = ""
                             THEN [outcome |-> ls.outcome,
                                   city_rows |-> ls.city_rows,
                                   rows |-> ls.rows,
                                   district_applied |-> ls.district_applied]
                             ELSE [outcome |-> "not reached",
                                   city_rows |-> {}, rows |-> {},
                                   district_applied |-> FALSE]]
       IN  /\ cache' = st.cache
           /\ loads' = st.loads
           /\ resp' =
                IF error # ""
                THEN [op |-> "predict", request |-> request, status |-> 400,
                      detail |-> <<"Error making prediction", error>>,
                      predicted_price |-> {}, confidence |-> {},
                      local_stats |-> {}] @@ trace
                ELSE [op |-> "predict", request |-> request, status |-> 200,
                      detail |-> <<>>,
                      predicted_price |-> {100 * pr.prediction},
                      confidence |->
                          {determine_confidence(request, pr.prediction)},
                      local_stats |-> ls.local_stats] @@ trace
    /\ UNCHANGED <<phase, blobs, artifact, dataset>>

\* main.py 222-226: str() of the HTTPException(status_code=404, ...) the
\* handler raises for an empty result.
no_properties_found ==
    "404: No properties found matching the filter criteria"

\* main.py 245-249: except Exception around the whole handler; e is what was
\* raised inside, the HTTPException of line 223 included.
filter_except(e) ==
    [status |-> 400, detail |-> <<"Error filtering properties", e>>]

\* main.py 195-249.
filter_properties(voivodeship, city, district) ==
    /\ phase = "serving"
    /\ LET query == [voivodeship |-> voivodeship, city |-> city,
                     district |-> district]
           missing ==
               {c \in {"voivodeship", "city", "district"} :
                   Truthy(query[c]) /\ c \notin dataset.columns}
           rows == {i \in RowIndex :
                      /\ Truthy(voivodeship) =>
                           match_exact(dataset.rows[i].voivodeship, voivodeship)
                      /\ Truthy(city) =>
                           match_exact(dataset.rows[i].city, city)
                      /\ Truthy(district) =>
                           match_exact(dataset.rows[i].district, district)}
           fail(e, n) == [op |-> "filter", query |-> query, stats |-> {},
                          rows |-> n] @@ filter_except(e)
       IN  resp' =
             IF dataset.status # "ok" THEN fail(dataset.status, {})
             ELSE IF missing # {} THEN fail("KeyError: filter column", {})
             ELSE IF Cardinality(rows) = 0
                  THEN fail(no_properties_found, rows)
             ELSE IF ~({"Price", "Area (m2)", "Number of rooms"}
                          \subseteq dataset.columns)
                  THEN fail("KeyError: statistics", rows)
             ELSE [op |-> "filter", query |-> query, status |-> 200,
                   detail |-> <<>>, rows |-> rows,
                   stats |->
                     {[count |-> Cardinality(rows),
                       avg_price |-> statistics(rows).avg_price,
                       min_price |-> statistics(rows).min_price,
                       max_price |-> statistics(rows).max_price,
                       avg_area |-> statistics(rows).avg_area,
                       avg_rooms |-> statistics(rows).avg_rooms,
                       filters_applied |-> query]}]
    /\ UNCHANGED <<phase, blobs, artifact, cache, loads, dataset>>

\* ------------------------------------------------------------ inputs
\* models.py 9-71: the enums, in declaration order, which is the order of a
\* LabelEncoder's sorted classes_.
HeatingType ==
    <<"elektryczne", "gazowe", "inne", "kominkowe gazowe", "kotlownia",
      "miejskie", "pompa ciepla", "weglowe">>
BuildingMaterialType ==
    <<"beton", "beton komorkowy", "cegla", "drewno", "inny", "keramzyt",
      "pustak", "silikat", "wielka plyta", "zelbet">>
BuildingType ==
    <<"apartamentowiec", "blizniak", "blok", "dom wolnostojacy", "kamienica",
      "loft", "plomba", "szeregowiec", "wolnostojacy">>
MarketType == <<"pierwotny", "wtorny">>
Voivodeship ==
    <<"dolnoslaskie", "kujawsko-pomorskie", "lubelskie", "lubuskie",
      "mazowieckie", "malopolskie", "opolskie", "podkarpackie", "podlaskie",
      "pomorskie", "warminsko-mazurskie", "wielkopolskie",
      "zachodniopomorskie", "lodzkie", "slaskie", "swietokrzyskie">>

\* label_encoders.joblib as training leaves it: one encoder per categorical
\* column, its classes the enum of the column.
FullEncoders ==
    [c \in SeqToSet(CategoricalColumns) |->
        CASE c = "Heating" -> HeatingType
          [] c = "Building material" -> BuildingMaterialType
          [] c = "Building type" -> BuildingType
          [] c = "Market" -> MarketType
          [] c = "voivodeship" -> Voivodeship]

\* Encoders that drifted from the schema: no encoder for Market; an encoder
\* for Heating trained without "gazowe".
EncodersNoMarket ==
    [c \in SeqToSet(CategoricalColumns) \ {"Market"} |-> FullEncoders[c]]
EncodersDrift ==
    [FullEncoders EXCEPT !["Heating"] =
        <<"elektryczne", "inne", "miejskie", "weglowe">>]

Reverse(s) == [i \in DOMAIN s |-> s[Len(s) + 1 - i]]

\* features.joblib: orders of the training columns, among them the order in
\* which feature_dict is built, and one naming "city" (MODEL_METADATA lists it
\* among features_used), which is no column of feature_dict.
FeatureOrders ==
    {AllColumns,
     Reverse(AllColumns),
     CategoricalColumns \o NumericColumns,
     <<"voivodeship", "Area (m2)", "Heating">>,
     <<"year_const", "Market", "Number of rooms", "Area (m2)">>,
     AllColumns \o <<"city">>}

PriceGrid == {99999, 100000, 1500000, 1500001}

\* A request as pydantic hands it to the handler (models.py 74-85): area > 0
\* (tenths of m2), rooms > 0, 1900 <= year_constructed <= 2025, enum values.
BaseRequest ==
    [area |-> 1205, rooms |-> 4, year_constructed |-> 2020,
     heating |-> "gazowe", building_material |-> "cegla",
     building_type |-> "blizniak", market |-> "pierwotny",
     voivodeship |-> "mazowieckie", city |-> NoneStr, district |-> NoneStr]

BaseModel == [n_features_in |-> 8, pos |-> 1, thr |-> 1000,
              lo |-> 350000, hi |-> 650000]

BaseArtifact ==
    [model |-> BaseModel, encoders |-> FullEncoders, features |-> AllColumns]

Kr == <<"K", "r">>
Wa == <<"W", "a">>
Ma == <<"m", "a">>

\* Records of data_processed.csv the datasets are built from.
RowPool ==
    <<[voivodeship |-> Ma, city |-> Kr, district |-> Wa,
       Price |-> 100000, Area |-> 500, rooms |-> 2, year_const |-> 2000],
      [voivodeship |-> Ma, city |-> Lower(Kr), district |-> Lower(Wa),
       Price |-> 200000, Area |-> 605, rooms |-> 3, year_const |-> 2001],
      [voivodeship |-> Ma, city |-> Kr, district |-> NaN,
       Price |-> 300000, Area |-> 755, rooms |-> 4, year_const |-> 2001],
      [voivodeship |-> <<"M", "a">>, city |-> Wa, district |-> Kr,
       Price |-> 100001, Area |-> 1200, rooms |-> 5, year_const |-> 1975],
      [voivodeship |-> Ma, city |-> NaN, district |-> Wa,
       Price |-> 1500000, Area |-> 2000, rooms |-> 1, year_const |-> 1900]>>

\* The row sequences of at most MaxRows records, one per multiset of records
\* (filtering, len, mean, min and max do not depend on the order of the rows).
RowSeqs ==
    UNION {{[i \in 1..n |-> RowPool[ix[i]]] :
              ix \in {f \in [1..n -> DOMAIN RowPool] :
                        \A i \in 1..n, j \in 1..n : i <= j => f[i] <= f[j]}} :
           n \in 0..MaxRows}

\* Datasets: readable ones with every column; readable ones that lack a
\* column; a missing and an unreadable file.
Datasets ==
    {[status |-> "ok", columns |-> DatasetColumns, rows |-> rs] :
        rs \in RowSeqs}
    \cup {[status |-> "ok", columns |-> DatasetColumns \ {c}, rows |-> rs] :
            c \in {"district", "Price"},
            rs \in {<<>>, <<RowPool[1]>>,
                    <<RowPool[1], RowPool[2], RowPool[3]>>}}
    \cup {[status |-> st, columns |-> {}, rows |-> <<>>] :
            st \in {"missing", "unreadable"}}

OkDataset ==
    [status |-> "ok", columns |-> DatasetColumns,
     rows |-> <<RowPool[1], RowPool[2], RowPool[3]>>]

Cities == {NoneStr, <<>>, Kr, Lower(Kr), Wa, <<"Z", "z">>}
Districts == {NoneStr, Wa, Lower(Wa), Kr}

InitWith(blobsets, artifacts, datasets) ==
    /\ phase = "boot"
    /\ blobs \in blobsets
    /\ artifact \in artifacts
    /\ cache = [p \in Parts |-> None]
    /\ loads = [p \in Parts |-> 0]
    /\ dataset \in datasets
    /\ resp = [op |-> "none"]

\* ---- Spec: the aggregation paths, over the datasets.
Init ==
    InitWith({Parts},
             {BaseArtifact,
              [BaseArtifact EXCEPT !.features = AllColumns \o <<"city">>]},
             Datasets)

Predict ==
    \E c \in Cities, d \in Districts :
        predict_price([BaseRequest EXCEPT !.city = c, !.district = d])

Filter ==
    \E v \in {NoneStr, Ma, <<"M", "a">>}, c \in {NoneStr, Kr, Lower(Kr)},
       d \in {NoneStr, Wa} :
        filter_properties(v, c, d)

Next == startup_event \/ Predict \/ Filter

Spec == Init /\ [][Next]_vars

\* ---- SpecConf: the confidence label, over requests and predicted prices
\* on both sides of every bound of the four rules.
ConfModels ==
    {[BaseModel EXCEPT !.lo = a, !.hi = b] : a \in PriceGrid, b \in PriceGrid}

InitConf ==
    InitWith({Parts},
             {[BaseArtifact EXCEPT !.model = m] : m \in ConfModels},
             {OkDataset})

PredictConf ==
    \E a \in {399, 400, 1205, 2000, 2001, 5000}, r \in {1, 2, 5, 6},
       y \in {1900, 1959, 1960, 2025} :
        predict_price([BaseRequest EXCEPT !.area = a, !.rooms = r,
                                          !.year_constructed = y])

FilterConf == filter_properties(Ma, NoneStr, NoneStr)

NextConf == startup_event \/ PredictConf \/ FilterConf

SpecConf == InitConf /\ [][NextConf]_vars

\* ---- SpecEnc: the encoding, over artifacts whose feature order, encoders
\* and regressor shape vary.
EncModels == {[BaseModel EXCEPT !.n_features_in = n] : n \in {8, 4, 3}}

InitEnc ==
    InitWith({Parts},
             {[model |-> m, encoders |-> e, features |-> f] :
                 m \in EncModels,
                 e \in {FullEncoders, EncodersNoMarket, EncodersDrift},
                 f \in FeatureOrders},
             {OkDataset})

PredictEnc ==
    \E a \in {500, 1205}, h \in {"gazowe", "weglowe"},
       m \in SeqToSet(MarketType), v \in {"mazowieckie", "lodzkie"} :
        predict_price([BaseRequest EXCEPT !.area = a, !.heating = h,
                                          !.market = m, !.voivodeship = v])

NextEnc == startup_event \/ PredictEnc \/ FilterConf

SpecEnc == InitEnc /\ [][NextEnc]_vars

\* ---- SpecLife: the artifact cache over the life of a process, with any of
\* the three blobs absent, and blobs removed from disk at any time.
DeleteBlob ==
    /\ \E p \in blobs : blobs' = blobs \ {p}
    /\ UNCHANGED <<phase, artifact, cache, loads, dataset, resp>>

InitLife == InitWith(SUBSET Parts, {BaseArtifact}, {OkDataset})

PredictLife ==
    \E c \in Cities, r \in {1, 4} :
        predict_price([BaseRequest EXCEPT !.city = c, !.rooms = r])

NextLife == startup_event \/ PredictLife \/ FilterConf \/ DeleteBlob

SpecLife == InitLife /\ [][NextLife]_vars

\* ------------------------------------------------------------ claims
Answered == resp.op = "predict" /\ resp.status = 200
Price == (CHOOSE p \in resp.predicted_price : TRUE) \div 100
Label == CHOOSE l \in resp.confidence : TRUE
Snapshot == CHOOSE x \in resp.local_stats : TRUE

B(cond) == IF cond THEN 1 ELSE 0

\* The additive score of the four rules, in tenths.
RuleScore ==
    3 * B(resp.request.area \in Tenths(40)..Tenths(200))
    + 2 * B(resp.request.rooms \in 2..5)
    + 2 * B(resp.request.year_constructed \in 1960..2025)
    + 3 * B(Price \in 100000..1500000)

\* C1: the confidence label of every answered prediction is the one the
\* additive score gives: +0.3 for 40 <= area <= 200, +0.2 for 2 <= rooms <= 5,
\* +0.2 for 1960 <= year <= 2025, +0.3 for 100000 <= price <= 1500000, High
\* from 0.8, Medium from 0.5, Low below; all four rules give High, and area
\* 500 with the other three gives 0.7 and Medium.
C1_ConfidenceLabel ==
    Answered =>
        /\ RuleScore >= 8 => Label = "High"
        /\ RuleScore >= 5 /\ RuleScore < 8 => Label = "Medium"
        /\ RuleScore < 5 => Label = "Low"
        /\ RuleScore = 10 => Label = "High"
        /\ (resp.request.area = Tenths(500) /\ resp.request.rooms \in 2..5
            /\ resp.request.year_constructed \in 1960..2025
            /\ Price \in 100000..1500000)
           => RuleScore = 7 /\ Label = "Medium"

C1_Witness ==
    /\ Answered
    /\ resp.request.area = Tenths(500)
    /\ resp.request.rooms = 2
    /\ resp.request.year_constructed = 2025
    /\ Price = 1500000
    /\ Label = "Medium"

\* The value of column c of the request as the regressor must see it: the
\* number for a numeric column, for a column with an encoder a code that the
\* encoder's classes decode to the request's value, else the raw value.
IsValueOf(x, c) ==
    IF c \in DOMAIN artifact.encoders
    THEN /\ x \in 0..(Len(artifact.encoders[c]) - 1)
         /\ artifact.encoders[c][x + 1] = feature_dict(resp.request)[c]
    ELSE x = feature_dict(resp.request)[c]

\* C2: the vector handed to the regressor has len(feature_order) entries and
\* its i-th entry is the value of the column feature_order[i], whatever the
\* order in which the mapping was built.
C2_VectorInFeatureOrder ==
    (resp.op = "predict" /\ resp.invoked) =>
        /\ Len(resp.X) = Len(artifact.features)
        /\ \A i \in DOMAIN artifact.features :
               IsValueOf(resp.X[i], artifact.features[i])

C2_Witness ==
    /\ Answered /\ resp.invoked
    /\ artifact.features = Reverse(AllColumns)
    /\ artifact.encoders = FullEncoders
    /\ resp.request.voivodeship = "lodzkie"
    /\ resp.X[1] = 13
    /\ resp.X[8] = resp.request.area

\* The rows a filter query must select: identical strings on every filter
\* that is given.
ExactRows(q) ==
    {i \in RowIndex :
        \A c \in {"voivodeship", "city", "district"} :
            Truthy(q[c]) => dataset.rows[i][c] = q[c]}

FilterRan ==
    /\ resp.op = "filter"
    /\ dataset.status = "ok"
    /\ DatasetColumns \subseteq dataset.columns

\* C3: a filter query that leaves zero rows signals NotFound (status 404,
\* "No properties found matching the filter criteria"), an outcome that
\* differs from the one of any other failure of the query; it returns no
\* snapshot.
C3_NotFoundSignalled ==
    (FilterRan /\ ExactRows(resp.query) = {}) =>
        /\ resp.status = 404
        /\ resp.stats = {}

\* What the handler does answer for an empty result.
C3_EmptyResultIs400 ==
    /\ FilterRan /\ ExactRows(resp.query) = {}
    /\ resp.status = 400
    /\ resp.stats = {}

\* C4: a predict request whose encoding and regressor call succeed is
\* answered with the price and the confidence label whether the aggregation
\* yields rows, finds no rows or raises; in the last two cases local_stats is
\* absent.
C4_PredictionSurvivesAggregation ==
    (resp.op = "predict" /\ resp.agg.outcome # "not reached") =>
        /\ resp.status = 200
        /\ resp.predicted_price # {}
        /\ resp.confidence # {}
        /\ resp.agg.outcome \in {"no rows", "raised"} => resp.local_stats = {}

C4_Witness ==
    /\ Answered
    /\ resp.agg.outcome = "raised"
    /\ dataset.status = "missing"
    /\ resp.predicted_price # {} /\ resp.confidence # {}
    /\ resp.local_stats = {}

\* A dataset cell equals a filter value after lower-casing both.
LowerEq(cell, value) == cell # NaN /\ Lower(cell) = Lower(value)

Given(request) == Truthy(request.city) \/ Truthy(request.district)

\* The rows that pass the city filter alone.
CityOnly(request) ==
    {i \in RowIndex :
        Truthy(request.city) => LowerEq(dataset.rows[i].city, request.city)}

\* The rows that pass the city and the district filter.
LowerRows(request) ==
    {i \in CityOnly(request) :
        Truthy(request.district) =>
            LowerEq(dataset.rows[i].district, request.district)}

\* The filters of the request can be evaluated on the dataset.
Filterable(request) ==
    /\ dataset.status = "ok"
    /\ \A c \in {"city", "district"} :
           Truthy(request[c]) => c \in dataset.columns

\* The rows that remain after the city/district filtering ({} when the
\* dataset cannot be filtered).
Remaining(request) ==
    IF Filterable(request) THEN LowerRows(request) ELSE {}

\* C5 as stated: local_stats is present exactly when a location is given and
\* at least one row remains after the filtering; a present snapshot counts at
\* least one property.
C5_PresentIffRowsRemain ==
    Answered =>
        /\ resp.local_stats # {}
             <=> (Given(resp.request) /\ Remaining(resp.request) # {})
        /\ resp.local_stats # {} => Snapshot.properties_count >= 1

\* C5 amended: local_stats is present exactly when a location is given, the
\* aggregation raises nothing and at least one row remains after the
\* filtering; a present snapshot counts the remaining rows, at least one; with
\* zero rows remaining, or no location given, local_stats is absent.
C5_PresentIffRowsRemainAndNoRaise ==
    Answered =>
        /\ resp.local_stats # {}
             <=> (/\ Given(resp.request)
                  /\ resp.agg.outcome # "raised"
                  /\ Remaining(resp.request) # {})
        /\ resp.local_stats # {} =>
             /\ Snapshot.properties_count >= 1
             /\ Snapshot.properties_count
                  = Cardinality(Remaining(resp.request))
        /\ (Remaining(resp.request) = {} \/ ~Given(resp.request))
             => resp.local_stats = {}

C5_Witness ==
    /\ Answered
    /\ Truthy(resp.request.city)
    /\ Filterable(resp.request)
    /\ Len(dataset.rows) = 2
    /\ Remaining(resp.request) = {}
    /\ resp.local_stats = {}

\* C6: in predict_price a row matches a city or district filter exactly when
\* the strings are equal after lower-casing both; in filter_properties a row
\* matches a voivodeship, city or district filter exactly when the strings
\* are identical.
C6_CaseHandling ==
    /\ (resp.op = "predict" /\ resp.agg.outcome \in {"no rows", "snapshot"})
       => /\ resp.agg.city_rows = CityOnly(resp.request)
          /\ resp.agg.rows = LowerRows(resp.request)
    /\ (resp.op = "filter" /\ dataset.status = "ok"
        /\ \A c \in {"voivodeship", "city", "district"} :
               Truthy(resp.query[c]) => c \in dataset.columns)
       => resp.rows = ExactRows(resp.query)

C6_Witness ==
    /\ resp.op = "predict" /\ resp.agg.outcome = "snapshot"
    /\ resp.request.city = Lower(Kr)
    /\ \E i \in resp.agg.rows :
           /\ dataset.rows[i].city = Kr
           /\ i \notin ExactRows([voivodeship |-> NoneStr,
                                  city |-> resp.request.city,
                                  district |-> NoneStr])

\* C7: the rows used for the statistics are among the rows that pass the city
\* filter alone, and when the city filter leaves no rows the district filter
\* is not applied and there is no snapshot.
C7_DistrictNeverWidens ==
    (/\ resp.op = "predict"
     /\ resp.agg.outcome \notin {"skipped", "not reached"}
     /\ dataset.status = "ok"
     /\ Truthy(resp.request.city) => "city" \in dataset.columns)
    => /\ resp.agg.rows \subseteq CityOnly(resp.request)
       /\ (Truthy(resp.request.city) /\ CityOnly(resp.request) = {})
          => /\ ~resp.agg.district_applied
             /\ resp.agg.outcome = "no rows"
             /\ resp.local_stats = {}

C7_Witness ==
    /\ resp.op = "predict" /\ resp.agg.outcome = "snapshot"
    /\ Truthy(resp.request.city) /\ Truthy(resp.request.district)
    /\ resp.agg.district_applied
    /\ resp.agg.rows # CityOnly(resp.request)
    /\ \E i \in RowIndex \ CityOnly(resp.request) :
           LowerEq(dataset.rows[i].district, resp.request.district)

\* C8: each artifact part is loaded at most once per process: the first
\* access loads it, later accesses return the cached instance, and a cache
\* slot that is set is never reset or replaced.
C8_LoadedOnce ==
    /\ [](\A p \in Parts :
            /\ loads[p] <= 1
            /\ cache[p] # None <=> loads[p] = 1)
    /\ [][\A p \in Parts :
            cache[p] # None => cache'[p] = cache[p] /\ loads'[p] = loads[p]]_vars

C8_Witness ==
    /\ Answered
    /\ blobs = {}
    /\ \A p \in Parts : cache[p] = 1 /\ loads[p] = 1

\* C9: with any of the three blobs absent at startup the load fails and the
\* process does not start serving; it serves only with all three parts
\* cached, so no request is ever answered with the missing-artifact error.
C9_MissingArtifactFatal ==
    /\ [](/\ phase = "serving" => \A p \in Parts : cache[p] # None
          /\ resp.op = "predict" =>
               resp.detail # <<"Error making prediction", "FileNotFoundError">>)
    /\ [][(phase = "boot" /\ blobs # Parts /\ phase' # "boot")
            => phase' = "failed"]_vars

C9_Witness ==
    /\ phase = "failed"
    /\ blobs = Parts \ {"features"}
    /\ cache["model"] # None /\ cache["features"] = None

\* 100 times the sum of column f over the rows the snapshot was taken over.
Sum100(f) == 100 * SumOver(resp.agg.rows, f)
N == Cardinality(resp.agg.rows)

\* An average reported in hundredths is the mean rounded to the nearest
\* hundredth: it differs from the mean by at most half a hundredth.
IsRoundedMean(avg, sum100) ==
    /\ 2 * (avg * N - sum100) <= N
    /\ 2 * (sum100 - avg * N) <= N

HasSnapshot == Answered /\ resp.local_stats # {}

PricesAre(ps) ==
    /\ N = Len(ps)
    /\ \E f \in [1..N -> resp.agg.rows] :
           /\ \A i \in 1..N, j \in 1..N : i # j => f[i] # f[j]
           /\ \A i \in 1..N : dataset.rows[f[i]].Price = ps[i]

\* C10 as stated: the snapshot reports the number of matching rows, their
\* mean, smallest and largest price, the means of area and rooms, and the
\* mean year truncated to an integer.
C10_SnapshotIsExactMean ==
    HasSnapshot =>
        /\ Snapshot.properties_count = N
        /\ Snapshot.avg_price * N = Sum100("Price")
        /\ Snapshot.min_price = 100 * MinOver(resp.agg.rows, "Price")
        /\ Snapshot.max_price = 100 * MaxOver(resp.agg.rows, "Price")
        /\ Snapshot.avg_area * N * 10 = Sum100("Area")
        /\ Snapshot.avg_rooms * N = Sum100("rooms")
        /\ Snapshot.avg_year * N <= SumOver(resp.agg.rows, "year_const")
        /\ SumOver(resp.agg.rows, "year_const") < (Snapshot.avg_year + 1) * N

\* C10 amended: the snapshot reports the number of matching rows, their
\* smallest and largest price, the mean price, mean area and mean rooms each
\* rounded to two decimals (so min_price <= avg_price <= max_price), and the
\* mean year truncated to an integer; for prices 100000, 200000, 300000 it
\* reports count 3, avg_price 200000, min_price 100000, max_price 300000.
C10_SnapshotIsRoundedMean ==
    HasSnapshot =>
        /\ Snapshot.properties_count = N
        /\ IsRoundedMean(Snapshot.avg_price, Sum100("Price"))
        /\ Snapshot.min_price = 100 * MinOver(resp.agg.rows, "Price")
        /\ Snapshot.max_price = 100 * MaxOver(resp.agg.rows, "Price")
        /\ Snapshot.min_price <= Snapshot.avg_price
        /\ Snapshot.avg_price <= Snapshot.max_price
        /\ 2 * (10 * Snapshot.avg_area * N - Sum100("Area")) <= 10 * N
        /\ 2 * (Sum100("Area") - 10 * Snapshot.avg_area * N) <= 10 * N
        /\ IsRoundedMean(Snapshot.avg_rooms, Sum100("rooms"))
        /\ Snapshot.avg_year * N <= SumOver(resp.agg.rows, "year_const")
        /\ SumOver(resp.agg.rows, "year_const") < (Snapshot.avg_year + 1) * N
        /\ PricesAre(<<100000, 200000, 300000>>) =>
             /\ Snapshot.properties_count = 3
             /\ Snapshot.avg_price = 100 * 200000
             /\ Snapshot.min_price = 100 * 100000
             /\ Snapshot.max_price = 100 * 300000

C10_Witness ==
    /\ HasSnapshot
    /\ resp.request.city = Kr
    /\ PricesAre(<<100000, 200000, 300000>>)
    /\ Snapshot.properties_count = 3
    /\ Snapshot.avg_price = 100 * 200000
    /\ 3 * Snapshot.avg_year + 2 = SumOver(resp.agg.rows, "year_const")

\* What a predict request is answered when it is processed alone by a process
\* that has loaded the artifact: a function of the request's fields, the
\* artifact and the dataset only.
AloneEncoded(request) ==
    reorder(encode_columns(feature_dict(request), artifact.encoders).X,
            artifact.features)

AlonePredicted(request) ==
    model_predict(artifact.model, AloneEncoded(request).X,
                  dtypes(artifact.features, artifact.encoders))

AloneFails(request) ==
    \/ encode_columns(feature_dict(request), artifact.encoders).raised # ""
    \/ AloneEncoded(request).raised # ""
    \/ AlonePredicted(request).raised # ""

\* C11: whatever was processed before, a request is answered as when it is
\* processed alone: the answer is a function of the request's own fields, the
\* artifact and the dataset (same status, encoded vector, price, confidence
\* label and snapshot), and no request changes the cached artifact or the
\* dataset.
C11_RequestsIndependent ==
    /\ [](resp.op = "predict" =>
            /\ resp.status = IF AloneFails(resp.request) THEN 400 ELSE 200
            /\ Answered =>
                 /\ resp.X = AloneEncoded(resp.request).X
                 /\ resp.predicted_price
                      = {100 * AlonePredicted(resp.request).prediction}
                 /\ resp.confidence
                      = {determine_confidence(
                            resp.request,
                            AlonePredicted(resp.request).prediction)}
                 /\ resp.local_stats
                      = local_statistics(resp.request).local_stats)
    /\ [](resp.op = "filter" /\ resp.status = 200 =>
            \E x \in resp.stats :
                x.count = Cardinality(ExactRows(resp.query)))
    /\ [][phase = "serving" =>
            /\ cache' = cache /\ loads' = loads
            /\ artifact' = artifact /\ dataset' = dataset]_vars

C11_Witness ==
    /\ Answered
    /\ blobs = {"encoders"}
    /\ resp.request.city = Lower(Kr) /\ resp.request.rooms = 1
    /\ resp.local_stats # {}
    /\ Snapshot.properties_count = 3
    /\ resp.X = AloneEncoded(resp.request).X

\* A categorical value of the request is outside its encoder's classes.
UnknownCategory(request) ==
    \E c \in DOMAIN artifact.encoders :
        feature_dict(request)[c] \notin SeqToSet(artifact.encoders[c])

\* feature_order names something that is no column of the built mapping.
SchemaMismatch ==
    \E i \in DOMAIN artifact.features :
        artifact.features[i] \notin SeqToSet(AllColumns)

\* The regressor was called and raised.
RegressorFault ==
    resp.invoked /\ resp.agg.outcome = "not reached"

NoResult == resp.predicted_price = {} /\ resp.confidence = {}

\* C12 as stated: in each of the three cases the request fails with no price
\* and no label, and what the caller receives is the error itself, of its own
\* kind; in the first two cases the regressor is not invoked.
C12_ErrorsReachCallerUnmodified ==
    resp.op = "predict" =>
        /\ UnknownCategory(resp.request) =>
             /\ NoResult /\ ~resp.invoked
             /\ resp.detail[1] = "ValueError: unseen label"
        /\ (SchemaMismatch /\ ~UnknownCategory(resp.request)) =>
             /\ NoResult /\ ~resp.invoked
             /\ resp.detail[1] = "KeyError"
        /\ RegressorFault =>
             /\ NoResult
             /\ resp.detail[1] = "ValueError: predict"

\* C12 amended: in each of the three cases the request fails with no price
\* and no label, and the caller receives one kind of error for all three,
\* status 400 "Error making prediction: <the error's message>"; in the first
\* two cases the regressor is not invoked.
C12_ErrorsWrappedAs400 ==
    resp.op = "predict" =>
        /\ UnknownCategory(resp.request) =>
             /\ NoResult /\ ~resp.invoked /\ resp.status = 400
             /\ resp.detail
                  = <<"Error making prediction", "ValueError: unseen label">>
        /\ (SchemaMismatch /\ ~UnknownCategory(resp.request)) =>
             /\ NoResult /\ ~resp.invoked /\ resp.status = 400
             /\ resp.detail = <<"Error making prediction", "KeyError">>
        /\ RegressorFault =>
             /\ NoResult /\ resp.status = 400
             /\ resp.detail
                  = <<"Error making prediction", "ValueError: predict">>

C12_Witness ==
    /\ resp.op = "predict"
    /\ SchemaMismatch /\ ~UnknownCategory(resp.request)
    /\ artifact.model.n_features_in = Len(AllColumns)
    /\ resp.status = 400 /\ NoResult /\ ~resp.invoked
    /\ resp.detail[2] = "KeyError"

====
